---- MODULE Spec2Model ----
(***************************************************************************)
(* Vocabulary Generator (src/main.ts): the pipeline that turns a selected  *)
(* word into a wikilink and a vocabulary note.                             *)
(*                                                                         *)
(* Strings are TLA+ strings, read one character at a time with SubSeq.     *)
(* An invocation of handleVocabGeneration is a task; it is cut at every    *)
(* await of a host or provider call (adapter.exists, generateContent,      *)
(* vault.create, vault.read, vault.modify), where other tasks may run.     *)
(***************************************************************************)
EXTENDS Integers, Sequences, FiniteSets, TLC

VARIABLES settings, editor, disk, index, inv, notices, console, calls, log, pure

vars == <<settings, editor, disk, index, inv, notices, console, calls, log, pure>>

(***************************************************************************)
(* Bounds                                                                  *)
(***************************************************************************)
\* concurrent invocations of the menu item in Spec
MaxTasks == 2
\* invocations run one after the other in SpecSeq
MaxSeqTasks == 2
\* longest word given to the Pattern Resolver in SpecResolve
MaxWordLen == 3
\* longest content prefix given to the header check in SpecHeader
MaxContentLen == 3

(***************************************************************************)
(* JavaScript string primitives                                            *)
(***************************************************************************)
\* the characters of s at positions a..b, 1-based and inclusive, clamped
\* to the string as String.prototype.substring clamps
substring(s, a, b) ==
    LET lo == IF a < 1 THEN 1 ELSE a
        hi == IF b > Len(s) THEN Len(s) ELSE b
    IN  IF lo > hi THEN "" ELSE SubSeq(s, lo, hi)

CharAt(s, i) == substring(s, i, i)

\* String.prototype.startsWith
startsWith(s, p) == Len(s) >= Len(p) /\ substring(s, 1, Len(p)) = p

\* the least member of a non-empty set of positions
least(S) == CHOOSE i \in S : \A j \in S : i <= j

\* String.prototype.indexOf, 1-based; 0 when absent
indexOf(s, p) ==
    LET at == {i \in 1..(Len(s) - Len(p) + 1) : substring(s, i, i + Len(p) - 1) = p}
    IN  IF at = {} THEN 0 ELSE least(at)

\* String.prototype.includes
includes(s, p) == indexOf(s, p) # 0

WhiteSpace == {" ", "\n", "\t", "\r"}

\* the first position from i upwards (dir = 1) or downwards (dir = -1)
\* that holds no white space
RECURSIVE skipSpace(_, _, _)
skipSpace(s, i, dir) ==
    IF i < 1 \/ i > Len(s) \/ CharAt(s, i) \notin WhiteSpace THEN i
    ELSE skipSpace(s, i + dir, dir)

\* String.prototype.trim
trim(s) == substring(s, skipSpace(s, 1, 1), skipSpace(s, Len(s), -1))

Upper == <<"A","B","C","D","E","F","G","H","I","J","K","L","M",
           "N","O","P","Q","R","S","T","U","V","W","X","Y","Z">>
Lower == <<"a","b","c","d","e","f","g","h","i","j","k","l","m",
           "n","o","p","q","r","s","t","u","v","w","x","y","z">>

lowerChar(c) ==
    IF \E k \in 1..26 : Upper[k] = c
    THEN Lower[CHOOSE k \in 1..26 : Upper[k] = c]
    ELSE c

\* String.prototype.toLowerCase, character by character (the string is
\* halved at each step only to keep the evaluation shallow)
RECURSIVE toLowerCase(_)
toLowerCase(s) ==
    IF s = "" THEN ""
    ELSE IF Len(s) = 1 THEN lowerChar(s)
    ELSE LET h == Len(s) \div 2
         IN  toLowerCase(substring(s, 1, h)) \o toLowerCase(substring(s, h + 1, Len(s)))

\* s.split('\n')[0]
firstLine(s) ==
    LET k == indexOf(s, "\n")
    IN  IF k = 0 THEN s ELSE substring(s, 1, k - 1)

\* GetSubstitution for a replacement string used with a pattern that has
\* no capture groups: $$ is "$", $& the match, $' the text after the
\* match; any other "$" stands for itself. (The fourth form, "$" and a
\* grave accent for the text before the match, takes `before`; that
\* character cannot be written in a string here, so no input holds it.)
RECURSIVE substitution(_, _, _, _)
substitution(repl, matched, before, after) ==
    IF repl = "" THEN ""
    ELSE IF CharAt(repl, 1) = "$" /\ Len(repl) >= 2
              /\ CharAt(repl, 2) \in {"$", "&", "'"}
    THEN LET c == CharAt(repl, 2)
             out == IF c = "$" THEN "$"
                    ELSE IF c = "&" THEN matched
                    ELSE after
         IN  out \o substitution(substring(repl, 3, Len(repl)), matched, before, after)
    ELSE CharAt(repl, 1) \o substitution(substring(repl, 2, Len(repl)), matched, before, after)

Token == "{}"

\* s.replace('{}', repl): the first occurrence only
replaceFirst(s, repl) ==
    LET k == indexOf(s, Token)
    IN  IF k = 0 THEN s
        ELSE LET before == substring(s, 1, k - 1)
                 after  == substring(s, k + 2, Len(s))
             IN  before \o substitution(repl, Token, before, after) \o after

\* s.replace(/{}/g, repl): every occurrence, left to right, the replaced
\* text not scanned again; `done` is the part of s already passed
RECURSIVE replaceFrom(_, _, _)
replaceFrom(s, done, repl) ==
    LET rest == substring(s, done + 1, Len(s))
        k    == indexOf(rest, Token)
    IN  IF k = 0 THEN rest
        ELSE LET before == substring(s, 1, done + k - 1)
                 after  == substring(s, done + k + 2, Len(s))
             IN  substring(rest, 1, k - 1)
                   \o substitution(repl, Token, before, after)
                   \o replaceFrom(s, done + k + 1, repl)

replaceAll(s, repl) == replaceFrom(s, 0, repl)

(***************************************************************************)
(* Settings                                                                *)
(***************************************************************************)
DEFAULT_SETTINGS ==
    [apiKey |-> "",
     prompt |-> "Generate a comprehensive vocabulary definition with examples, etymology, and usage for the word: {}",
     model |-> "gemini-2.0-flash",
     useCustomModel |-> FALSE,
     customModel |-> "gemini-2.0-flash",
     noteNamePattern |-> "[[vocab.{}|{}]]"]

(***************************************************************************)
(* Pattern Resolver                                                        *)
(***************************************************************************)
\* the wikilink written into the editor
wikilinkOf(pattern, selectedText) == replaceAll(pattern, selectedText)

\* the end of the run of characters outside `stops` that starts at p: the
\* first position from p on that holds a character of `stops`, or Len(s)+1
runEnd(s, p, stops) ==
    LET at == {j \in p..Len(s) : CharAt(s, j) \in stops}
    IN  IF at = {} THEN (IF p > Len(s) THEN p ELSE Len(s) + 1) ELSE least(at)

\* /\[\[([^\]|]+)(?:\|[^\]]+)?\]\]/ tried at position i. Group 1 is the
\* whole run of characters other than "]" and "|" after "[[": a shorter
\* one is followed by a character of the run, which neither "|" nor "]]"
\* matches. The optional part is likewise the whole run after "|".
\* The result is the end of group 1, or 0 when there is no match at i.
matchAt(s, i) ==
    LET e  == runEnd(s, i + 2, {"]", "|"})
        e2 == runEnd(s, e + 1, {"]"})
    IN  IF substring(s, i, i + 1) # "[[" \/ Len(s) < i + 1 \/ e = i + 2 THEN 0
        ELSE IF e + 1 <= Len(s) /\ substring(s, e, e + 1) = "]]" THEN e - 1
        ELSE IF /\ CharAt(s, e) = "|"
                /\ e2 > e + 1
                /\ e2 + 1 <= Len(s)
                /\ substring(s, e2, e2 + 1) = "]]" THEN e - 1
        ELSE 0

\* fullPattern.match(...): group 1 of the leftmost match; "" stands for
\* null (group 1 is never empty)
wikilinkMatch(s) ==
    LET starts == {i \in 1..Len(s) : matchAt(s, i) # 0}
    IN  IF starts = {} THEN ""
        ELSE substring(s, least(starts) + 2, matchAt(s, least(starts)))

\* as if the wikilink were never taken apart
extractFileNameWhole(pattern, word) == replaceAll(pattern, word) \o ".md"

extractFileName(pattern, word) ==
    LET fullPattern == replaceAll(pattern, word)
        m == wikilinkMatch(fullPattern)
    IN  IF m # "" THEN m \o ".md" ELSE fullPattern \o ".md"

(***************************************************************************)
(* Content Generator                                                       *)
(***************************************************************************)
\* Values a promise can reject with: an Error carrying a message, or a
\* value with no message property (a thrown string), or null.
ErrorOf(m) == [type |-> "Error", message |-> m]
ThrownString == [type |-> "string", message |-> ""]
ThrownNull == [type |-> "null", message |-> ""]
NoError == [type |-> "none", message |-> ""]

\* reading error.message and calling .includes on it
messageReadable(error) == error.type = "Error"

\* the TypeError raised by error.message.includes(...) on such a value
typeErrorOf(error) ==
    IF error.type = "null"
    THEN ErrorOf("Cannot read properties of null (reading 'message')")
    ELSE ErrorOf("Cannot read properties of undefined (reading 'includes')")

noKeyContent(word) ==
    "**" \o word \o "**\n\n*Please configure your Gemini API key in plugin settings to generate AI content.*"

invalidKeyContent(word) ==
    "**" \o word \o "**\n\n*Invalid API key. Please check your Gemini API key in plugin settings.*"

errorContent(word, message) ==
    "**" \o word \o "**\n\n*Error generating AI content: " \o message \o "*"

\* the prompt sent to the provider
promptText(prompt, word) ==
    IF includes(prompt, Token) THEN replaceFirst(prompt, word) ELSE prompt \o word

modelToUse(s) == IF s.useCustomModel THEN s.customModel ELSE s.model

\* the catch block of generateAIContent: the content it returns, or the
\* error its own evaluation raises
catchOfGenerate(word, error) ==
    IF ~messageReadable(error)
    THEN [threw |-> TRUE, text |-> "", error |-> typeErrorOf(error)]
    ELSE IF includes(error.message, "API key")
    THEN [threw |-> FALSE, text |-> invalidKeyContent(word), error |-> NoError]
    ELSE [threw |-> FALSE, text |-> errorContent(word, error.message), error |-> NoError]

\* What generateAIContent does with the provider's outcome: a response
\* whose text is a string (possibly empty) or absent, or a rejection.
generateAIContent(word, outcome) ==
    IF outcome.kind = "response"
    THEN IF outcome.text = ""
         THEN catchOfGenerate(word, ErrorOf("No content generated by AI"))
         ELSE [threw |-> FALSE, text |-> outcome.text, error |-> NoError]
    ELSE catchOfGenerate(word, outcome.error)

\* did the try block of generateAIContent end in its catch block
reachedCatch(outcome) == outcome.kind = "reject" \/ outcome.text = ""

(***************************************************************************)
(* Header Reconciler and Note Writer                                       *)
(***************************************************************************)
HeaderThreshold == 100

\* as if the bold marker were not looked for
hasHeaderNoBold(aiContent, word) ==
    \/ startsWith(trim(aiContent), "#")
    \/ /\ includes(toLowerCase(aiContent), toLowerCase(word))
       /\ Len(firstLine(trim(aiContent))) < HeaderThreshold

hasHeader(aiContent, word) ==
    \/ startsWith(trim(aiContent), "#")
    \/ startsWith(trim(aiContent), "**")
    \/ /\ includes(toLowerCase(aiContent), toLowerCase(word))
       /\ Len(firstLine(trim(aiContent))) < HeaderThreshold

\* as if the header were always added
finalContentAlwaysHeader(aiContent, word) == "# " \o word \o "\n\n" \o aiContent

finalContent(aiContent, word) ==
    IF hasHeader(aiContent, word) THEN aiContent
    ELSE "# " \o word \o "\n\n" \o aiContent

\* the body vault.create is given
createdBody(aiContent, word) == finalContent(aiContent, word) \o "\n"

\* as if the separator were left out
modifiedBodyNoSeparator(content, aiContent) == content \o "\n" \o aiContent \o "\n"

\* as if the note were overwritten with the new content alone
modifiedBodyClobber(content, aiContent) == aiContent \o "\n"

\* the body vault.modify is given
modifiedBody(content, aiContent) == content \o "\n---\n\n" \o aiContent \o "\n"

createdNotice(fileName) == "Created vocabulary file: " \o fileName
updatedNotice(fileName) == "Updated vocabulary file: " \o fileName
errorNotice(error) == "Error: " \o error.message
EmptyNotice == "Please select text first"

(***************************************************************************)
(* Inputs                                                                  *)
(***************************************************************************)
\* what the user has selected when the menu item is clicked
Selections == {"  ", "serendipity", " luck "}

\* texts the provider answers with; "" stands for an empty or absent text
ProviderTexts == {"**Definition:** happy accident.", "A fortunate discovery."}

ProviderOutcomes ==
    {[kind |-> "response", text |-> x, error |-> NoError] : x \in ProviderTexts \cup {""}}
    \cup
    {[kind |-> "reject", text |-> "", error |-> e] :
        e \in {ErrorOf("API key not valid. Please pass a valid API key."),
               ErrorOf("fetch failed"), ThrownString, ThrownNull}}

\* the error of a failing adapter or vault call
StorageError == ErrorOf("EACCES: permission denied")
ExistsError == ErrorOf("File already exists.")

OldFile == "vocab.serendipity.md"
OldBody == "Old notes."

\* The vault before the first invocation: disk is what the adapter sees
\* (path -> body), index the paths the vault has a file object for.
InitialVaults ==
    {[disk |-> <<>>, index |-> {}],
     [disk |-> (OldFile :> OldBody), index |-> {OldFile}],
     [disk |-> (OldFile :> OldBody), index |-> {}]}

(***************************************************************************)
(* State                                                                   *)
(***************************************************************************)
\* settings  the plugin's settings
\* editor    per invocation, the text at its selection
\* disk      path -> body, as the adapter sees it; index: paths with a file object
\* inv       per invocation, the locals of the handler and where it awaits
\* notices   per invocation, the Notice texts shown
\* console   per invocation, the console.error labels
\* calls     per invocation, the requests sent to the provider
\* log       per invocation, the editor, adapter, vault and provider calls
\*           it has made, in order
\* pure      the input and result of a pure function (SpecResolve, SpecHeader)
Tasks == DOMAIN inv

IdleTask ==
    [pc |-> "idle", word |-> "", fileName |-> "", fileExists |-> FALSE,
     aiContent |-> "", content |-> "", caught |-> NoError, from |-> ""]

InitTasks(T) ==
    /\ settings \in {[DEFAULT_SETTINGS EXCEPT !.apiKey = k] : k \in {"", "AIza-key"}}
    /\ editor = [t \in T |-> ""]
    /\ \E v \in InitialVaults : disk = v.disk /\ index = v.index
    /\ inv = [t \in T |-> IdleTask]
    /\ notices = [t \in T |-> <<>>]
    /\ console = [t \in T |-> <<>>]
    /\ calls = [t \in T |-> <<>>]
    /\ log = [t \in T |-> <<>>]
    /\ pure = [fn |-> "none"]

Init == InitTasks(1..MaxTasks)

InFlight(t) == inv[t].pc \notin {"idle", "done"}

(***************************************************************************)
(* Command Orchestrator                                                    *)
(***************************************************************************)
\* as if the catch block logged the error and showed nothing
caughtByHandlerSilent(t, error, where) ==
    /\ inv' = [inv EXCEPT ![t].pc = "done", ![t].caught = error, ![t].from = where]
    /\ console' = [console EXCEPT ![t] = Append(@, "Vocab generation error:")]
    /\ UNCHANGED notices

\* the catch block of handleVocabGeneration
caughtByHandler(t, error, where) ==
    /\ inv' = [inv EXCEPT ![t].pc = "done", ![t].caught = error, ![t].from = where]
    /\ console' = [console EXCEPT ![t] = Append(@, "Vocab generation error:")]
    /\ notices' = [notices EXCEPT ![t] = Append(@, errorNotice(error))]

\* as if existence were looked up again once the content is there
afterGenerateRecheck(rec, aiContent) ==
    IF rec.fileName \notin DOMAIN disk
    THEN [rec EXCEPT !.aiContent = aiContent, !.pc = "create"]
    ELSE IF rec.fileName \in index
    THEN [rec EXCEPT !.aiContent = aiContent, !.pc = "read"]
    ELSE [rec EXCEPT !.aiContent = aiContent, !.pc = "done"]

\* createOrUpdateVocabFile once generateAIContent has returned aiContent:
\* the task's record as it awaits vault.create or vault.read, or is done
afterGenerate(rec, aiContent) ==
    IF ~rec.fileExists
    THEN [rec EXCEPT !.aiContent = aiContent, !.pc = "create"]
    ELSE IF rec.fileName \in index
    THEN [rec EXCEPT !.aiContent = aiContent, !.pc = "read"]
    ELSE [rec EXCEPT !.aiContent = aiContent, !.pc = "done"]

\* the calls createOrUpdateVocabFile makes on that path
callsAfterGenerate(rec) ==
    IF ~rec.fileExists THEN <<"vault.create">>
    ELSE IF rec.fileName \in index THEN <<"getFileByPath", "vault.read">>
    ELSE <<"getFileByPath">>

\* as if the selection were replaced before it is tested for emptiness
handleVocabGenerationReplaceFirst(t, selection) ==
    /\ inv[t].pc = "idle"
    /\ LET selectedText == trim(selection)
       IN  /\ editor' = [editor EXCEPT
                  ![t] = wikilinkOf(settings.noteNamePattern, selectedText)]
           /\ IF selectedText = ""
              THEN /\ notices' = [notices EXCEPT ![t] = Append(@, EmptyNotice)]
                   /\ inv' = [inv EXCEPT ![t].pc = "done"]
                   /\ log' = [log EXCEPT ![t] = <<"getSelection", "replaceSelection">>]
              ELSE /\ inv' = [inv EXCEPT
                          ![t].pc = "exists",
                          ![t].word = selectedText,
                          ![t].fileName = extractFileName(settings.noteNamePattern, selectedText)]
                   /\ log' = [log EXCEPT
                          ![t] = <<"getSelection", "replaceSelection", "adapter.exists">>]
                   /\ UNCHANGED notices
    /\ UNCHANGED <<settings, disk, index, console, calls, pure>>

\* as if the selection were replaced only after the note is written
handleVocabGenerationLinkLast(t, selection) ==
    /\ inv[t].pc = "idle"
    /\ LET selectedText == trim(selection)
       IN  IF selectedText = ""
           THEN /\ notices' = [notices EXCEPT ![t] = Append(@, EmptyNotice)]
                /\ inv' = [inv EXCEPT ![t].pc = "done"]
                /\ editor' = [editor EXCEPT ![t] = selection]
                /\ log' = [log EXCEPT ![t] = <<"getSelection">>]
           ELSE /\ editor' = [editor EXCEPT ![t] = selection]
                /\ inv' = [inv EXCEPT
                       ![t].pc = "exists",
                       ![t].word = selectedText,
                       ![t].fileName = extractFileName(settings.noteNamePattern, selectedText)]
                /\ log' = [log EXCEPT ![t] = <<"getSelection", "adapter.exists">>]
                /\ UNCHANGED notices
    /\ UNCHANGED <<settings, disk, index, console, calls, pure>>

\* the menu item's click handler, up to its first await (adapter.exists)
handleVocabGeneration(t, selection) ==
    /\ inv[t].pc = "idle"
    /\ LET selectedText == trim(selection)
       IN  IF selectedText = ""
           THEN /\ notices' = [notices EXCEPT ![t] = Append(@, EmptyNotice)]
                /\ inv' = [inv EXCEPT ![t].pc = "done"]
                /\ editor' = [editor EXCEPT ![t] = selection]
                /\ log' = [log EXCEPT ![t] = <<"getSelection">>]
           ELSE /\ editor' = [editor EXCEPT
                       ![t] = wikilinkOf(settings.noteNamePattern, selectedText)]
                /\ inv' = [inv EXCEPT
                       ![t].pc = "exists",
                       ![t].word = selectedText,
                       ![t].fileName = extractFileName(settings.noteNamePattern, selectedText)]
                /\ log' = [log EXCEPT
                       ![t] = <<"getSelection", "replaceSelection", "adapter.exists">>]
                /\ UNCHANGED notices
    /\ UNCHANGED <<settings, disk, index, console, calls, pure>>

\* adapter.exists answers; generateAIContent starts and, with no API key,
\* returns at once
existsResolves(t) ==
    /\ inv[t].pc = "exists"
    /\ LET rec == [inv[t] EXCEPT !.fileExists = (inv[t].fileName \in DOMAIN disk)]
       IN  IF settings.apiKey = ""
           THEN /\ inv' = [inv EXCEPT ![t] = afterGenerate(rec, noKeyContent(rec.word))]
                /\ log' = [log EXCEPT ![t] = @ \o callsAfterGenerate(rec)]
                /\ UNCHANGED calls
           ELSE /\ inv' = [inv EXCEPT ![t] = [rec EXCEPT !.pc = "generate"]]
                /\ calls' = [calls EXCEPT ![t] = Append(@,
                       [model |-> modelToUse(settings),
                        contents |-> promptText(settings.prompt, rec.word)])]
                /\ log' = [log EXCEPT ![t] = Append(@, "generateContent")]
    /\ UNCHANGED <<settings, editor, disk, index, notices, console, pure>>

\* ai.models.generateContent settles
generateResolves(t, outcome) ==
    /\ inv[t].pc = "generate"
    /\ LET r == generateAIContent(inv[t].word, outcome)
           logged == IF reachedCatch(outcome)
                     THEN Append(console[t], "AI generation error:")
                     ELSE console[t]
       IN  IF r.threw
           THEN /\ inv' = [inv EXCEPT ![t].pc = "done", ![t].caught = r.error,
                                      ![t].from = "generateAIContent"]
                /\ console' = [console EXCEPT ![t] = Append(logged, "Vocab generation error:")]
                /\ notices' = [notices EXCEPT ![t] = Append(@, errorNotice(r.error))]
                /\ UNCHANGED log
           ELSE /\ inv' = [inv EXCEPT ![t] = afterGenerate(inv[t], r.text)]
                /\ log' = [log EXCEPT ![t] = @ \o callsAfterGenerate(inv[t])]
                /\ console' = [console EXCEPT ![t] = logged]
                /\ UNCHANGED notices
    /\ UNCHANGED <<settings, editor, disk, index, calls, pure>>

\* vault.create settles: it refuses a path that is already taken
createResolves(t) ==
    /\ inv[t].pc = "create"
    /\ LET f == inv[t].fileName
       IN  IF f \in DOMAIN disk
           THEN /\ caughtByHandler(t, ExistsError, "create")
                /\ UNCHANGED <<disk, index>>
           ELSE /\ disk' = (f :> createdBody(inv[t].aiContent, inv[t].word)) @@ disk
                /\ index' = index \cup {f}
                /\ inv' = [inv EXCEPT ![t].pc = "done"]
                /\ notices' = [notices EXCEPT ![t] = Append(@, createdNotice(f))]
                /\ UNCHANGED console
    /\ UNCHANGED <<settings, editor, calls, log, pure>>

\* as if a lock keyed by the path were held from the read to the end of
\* the modify: the read waits while another invocation is in between
readResolvesLocked(t) ==
    /\ inv[t].pc = "read"
    /\ \A u \in DOMAIN inv :
          (u # t /\ inv[u].fileName = inv[t].fileName) => inv[u].pc # "modify"
    /\ inv' = [inv EXCEPT ![t].pc = "modify", ![t].content = disk[inv[t].fileName]]
    /\ log' = [log EXCEPT ![t] = Append(@, "vault.modify")]
    /\ UNCHANGED <<settings, editor, disk, index, notices, console, calls, pure>>

\* vault.read settles
readResolves(t) ==
    /\ inv[t].pc = "read"
    /\ inv' = [inv EXCEPT ![t].pc = "modify", ![t].content = disk[inv[t].fileName]]
    /\ log' = [log EXCEPT ![t] = Append(@, "vault.modify")]
    /\ UNCHANGED <<settings, editor, disk, index, notices, console, calls, pure>>

\* vault.modify settles
modifyResolves(t) ==
    /\ inv[t].pc = "modify"
    /\ disk' = [disk EXCEPT
           ![inv[t].fileName] = modifiedBody(inv[t].content, inv[t].aiContent)]
    /\ inv' = [inv EXCEPT ![t].pc = "done"]
    /\ notices' = [notices EXCEPT ![t] = Append(@, updatedNotice(inv[t].fileName))]
    /\ UNCHANGED <<settings, editor, index, console, calls, log, pure>>

\* an awaited adapter or vault call rejects instead
storageFails(t) ==
    /\ inv[t].pc \in {"exists", "create", "read", "modify"}
    /\ caughtByHandler(t, StorageError, inv[t].pc)
    /\ UNCHANGED <<settings, editor, disk, index, calls, log, pure>>

\* Tasks are numbered in the order of the clicks that start them; editor[t]
\* is the text at the selection of click t, and is "" until that click.
click(t) ==
    /\ \A u \in Tasks : u < t => inv[u].pc # "idle"
    /\ \E selection \in Selections : handleVocabGeneration(t, selection)

existsStep == \E t \in Tasks : existsResolves(t)
generateStep == \E t \in Tasks, outcome \in ProviderOutcomes : generateResolves(t, outcome)
createStep == \E t \in Tasks : createResolves(t)
readStep == \E t \in Tasks : readResolves(t)
modifyStep == \E t \in Tasks : modifyResolves(t)
storageFailure == \E t \in Tasks : storageFails(t)
laterSteps ==
    \/ existsStep
    \/ generateStep
    \/ createStep
    \/ readStep
    \/ modifyStep
    \/ storageFailure

\* any click may come while earlier invocations are still in flight
overlappingClick == \E t \in Tasks : click(t)

Next ==
    \/ overlappingClick
    \/ laterSteps

Spec == Init /\ [][Next]_vars

(***************************************************************************)
(* One invocation at a time: the host's interaction thread hands the next  *)
(* click to the handler only when no invocation is in flight.              *)
(***************************************************************************)
InitSeq == InitTasks(1..MaxSeqTasks)

serialClick ==
    \E t \in Tasks :
        /\ \A u \in Tasks : ~InFlight(u)
        /\ click(t)

NextSeq ==
    \/ serialClick
    \/ laterSteps

SpecSeq == InitSeq /\ [][NextSeq]_vars

(***************************************************************************)
(* The pure functions on their own: Init draws the inputs, one action      *)
(* applies the function as the handler does.                               *)
(***************************************************************************)
RECURSIVE StringsUpTo(_, _)
StringsUpTo(alphabet, n) ==
    IF n = 0 THEN {""}
    ELSE LET shorter == StringsUpTo(alphabet, n - 1)
         IN  shorter \cup {x \o c : x \in shorter, c \in alphabet}

NoInvocations ==
    /\ settings = DEFAULT_SETTINGS
    /\ editor = <<>>
    /\ disk = <<>>
    /\ index = {}
    /\ inv = <<>>
    /\ notices = <<>>
    /\ console = <<>>
    /\ calls = <<>>
    /\ log = <<>>

WordAlphabet == {"a", "]", "|", "[", "$", "&", "'", "{", "}"}

\* selections after trimming that pass the emptiness test
Words == StringsUpTo(WordAlphabet, MaxWordLen) \ {""}

Patterns == {DEFAULT_SETTINGS.noteNamePattern, "{}"}

InitResolve ==
    /\ NoInvocations
    /\ pure \in {[fn |-> "resolve", pattern |-> p, word |-> w, done |-> FALSE,
                  displayLink |-> "", storageIdentifier |-> ""] :
                    p \in Patterns, w \in Words}

\* lines 68 and 72 of handleVocabGeneration
resolve ==
    /\ pure.fn = "resolve"
    /\ ~pure.done
    /\ pure' = [pure EXCEPT
           !.done = TRUE,
           !.displayLink = wikilinkOf(pure.pattern, pure.word),
           !.storageIdentifier = extractFileName(pure.pattern, pure.word)]
    /\ UNCHANGED <<settings, editor, disk, index, inv, notices, console, calls, log>>

SpecResolve == InitResolve /\ [][resolve]_vars

ContentAlphabet == {"#", "*", " ", "\n", "w", "W"}

\* a line of exactly HeaderThreshold characters
LongLine ==
    "xxxxxxxxxxxxxxxxxxxxxxxxxxxxxxxxxxxxxxxxxxxxxxxxxx" \o
    "xxxxxxxxxxxxxxxxxxxxxxxxxxxxxxxxxxxxxxxxxxxxxxxxxx"

Contents ==
    {x \o rest : x \in StringsUpTo(ContentAlphabet, MaxContentLen), rest \in {"", LongLine}}

HeaderWords == {"w", "ok"}

InitHeader ==
    /\ NoInvocations
    /\ pure \in {[fn |-> "header", content |-> c, word |-> w, done |-> FALSE,
                  hasHeader |-> FALSE, body |-> ""] :
                    c \in Contents, w \in HeaderWords}

\* lines 111 to 118 of createOrUpdateVocabFile
reconcile ==
    /\ pure.fn = "header"
    /\ ~pure.done
    /\ pure' = [pure EXCEPT
           !.done = TRUE,
           !.hasHeader = hasHeader(pure.content, pure.word),
           !.body = createdBody(pure.content, pure.word)]
    /\ UNCHANGED <<settings, editor, disk, index, inv, notices, console, calls, log>>

SpecHeader == InitHeader /\ [][reconcile]_vars

(***************************************************************************)
(* Properties                                                              *)
(***************************************************************************)
Range(q) == {q[i] : i \in 1..Len(q)}

position(q, x) == least({i \in 1..Len(q) : q[i] = x})

IsPrefix(a, b) == Len(a) <= Len(b) /\ substring(b, 1, Len(a)) = a

IsPrefixSeq(a, b) == Len(a) <= Len(b) /\ SubSeq(b, 1, Len(a)) = a

occurrences(x, w) ==
    Cardinality({i \in 1..(Len(x) - Len(w) + 1) : substring(x, i, i + Len(w) - 1) = w})

\* the display link of the default pattern, written out
defaultLink(w) == "[[vocab." \o w \o "|" \o w \o "]]"

\* invocation t ends in this step, with a non-empty selection and with no
\* error caught by the handler
completes(t) ==
    /\ inv[t].pc # "done"
    /\ inv'[t].pc = "done"
    /\ inv'[t].word # ""
    /\ inv'[t].from = ""

\* C1: an invocation that ends without an error, found nothing at its path
\* and ran alone has created the note with exactly the generated content, or
\* "# <word>\n\n" and the generated content, and one newline, and shown the
\* "Created" notice; one that found a note with body C has overwritten it
\* with exactly C, "\n---\n\n", the generated content and "\n", and shown
\* the "Updated" notice.
C1_WriterStep ==
    \A t \in Tasks :
        completes(t) =>
            LET f  == inv'[t].fileName
                ai == inv'[t].aiContent
                w  == inv'[t].word
            IN  /\ f \notin DOMAIN disk =>
                    /\ f \in DOMAIN disk'
                    /\ disk'[f] \in {ai \o "\n", "# " \o w \o "\n\n" \o ai \o "\n"}
                    /\ notices'[t] = <<"Created vocabulary file: " \o f>>
                /\ (f \in DOMAIN disk /\ f \in index) =>
                    /\ disk'[f] = disk[f] \o "\n---\n\n" \o ai \o "\n"
                    /\ notices'[t] = <<"Updated vocabulary file: " \o f>>

C1_NoteWriterResult == [][C1_WriterStep]_vars

C1_Witness ==
    /\ disk = (OldFile :> "Old notes.\n---\n\n**Definition:** happy accident.\n")
    /\ \E t \in Tasks :
        /\ inv[t].pc = "done"
        /\ notices[t] = <<"Updated vocabulary file: vocab.serendipity.md">>

\* the first invocation with the word "serendipity", no API key and nothing
\* at its path, at the step that ends it
serendipityCreated(t) ==
    /\ completes(t)
    /\ inv'[t].word = "serendipity"
    /\ settings.apiKey = ""
    /\ settings.noteNamePattern = "[[vocab.{}|{}]]"
    /\ disk = <<>>

\* C2 as stated: with no API key the new note vocab.serendipity.md holds
\* the "# serendipity" heading and then the placeholder text.
C2_Original ==
    [][\A t \in Tasks :
        serendipityCreated(t) =>
            /\ editor'[t] = "[[vocab.serendipity|serendipity]]"
            /\ disk' = ("vocab.serendipity.md" :>
                 "# serendipity\n\n**serendipity**\n\n*Please configure your Gemini API key in plugin settings to generate AI content.*\n")]_vars

\* C2 (amended): with no API key the selection becomes
\* [[vocab.serendipity|serendipity]] and the new note vocab.serendipity.md
\* holds the placeholder text and a newline, with no heading before it.
C2_NoCredentialScenario ==
    [][\A t \in Tasks :
        serendipityCreated(t) =>
            /\ editor'[t] = "[[vocab.serendipity|serendipity]]"
            /\ notices'[t] = <<"Created vocabulary file: vocab.serendipity.md">>
            /\ calls'[t] = <<>>
            /\ disk' = ("vocab.serendipity.md" :>
                 "**serendipity**\n\n*Please configure your Gemini API key in plugin settings to generate AI content.*\n")]_vars

C2_Witness ==
    /\ settings.apiKey = ""
    /\ disk = ("vocab.serendipity.md" :>
         "**serendipity**\n\n*Please configure your Gemini API key in plugin settings to generate AI content.*\n")
    /\ \E t \in Tasks :
        /\ inv[t].pc = "done"
        /\ editor[t] = "[[vocab.serendipity|serendipity]]"

\* C3 as stated: whatever the provider call ends with, no error leaves
\* generateAIContent, so none reaches the handler from it.
C3_NeverEscapes ==
    \A t \in Tasks :
        "generateContent" \in Range(log[t]) => inv[t].from # "generateAIContent"

\* C4: an invocation whose selection is empty after trimming leaves the
\* selection as it was, calls neither the provider nor the adapter nor the
\* vault, logs nothing and shows the one notice.
C4_EmptySelectionAborts ==
    \A t \in Tasks :
        (inv[t].pc # "idle" /\ inv[t].word = "") =>
            /\ inv[t].pc = "done"
            /\ editor[t] \in Selections
            /\ trim(editor[t]) = ""
            /\ log[t] = <<"getSelection">>
            /\ calls[t] = <<>>
            /\ console[t] = <<>>
            /\ notices[t] = <<"Please select text first">>

C4_Witness ==
    \E t \in Tasks :
        /\ inv[t].pc = "done"
        /\ inv[t].word = ""
        /\ editor[t] = "  "
        /\ notices[t] = <<"Please select text first">>

\* C5: once the provider call of an invocation is issued (in flight,
\* failed or returned), the selection has been replaced by the display
\* link, and was replaced before the call.
C5_LinkBeforeProviderCall ==
    \A t \in Tasks :
        "generateContent" \in Range(log[t]) =>
            /\ editor[t] = defaultLink(inv[t].word)
            /\ "replaceSelection" \in Range(log[t])
            /\ position(log[t], "replaceSelection") < position(log[t], "generateContent")

C5_Witness ==
    \E t, u \in Tasks :
        /\ inv[t].from = "generateAIContent"
        /\ editor[t] = "[[vocab.luck|luck]]"
        /\ inv[u].pc = "generate"
        /\ editor[u] = "[[vocab.serendipity|serendipity]]"

\* invocation t has written to the note at f: it is done and has shown the
\* "Created" or the "Updated" notice for f
created(t, f) == inv[t].pc = "done" /\ notices[t] = <<"Created vocabulary file: " \o f>>
updated(t, f) == inv[t].pc = "done" /\ notices[t] = <<"Updated vocabulary file: " \o f>>

\* the sections that the invocations after number k and up to number n
\* have appended at f, in the order of the invocations
RECURSIVE sectionsOf(_, _, _)
sectionsOf(f, k, n) ==
    IF n <= k THEN ""
    ELSE sectionsOf(f, k, n - 1)
           \o (IF updated(n, f) THEN "\n---\n\n" \o inv[n].aiContent \o "\n" ELSE "")

\* what a note at f can begin with: the body created by invocation k, or
\* (k = 0) the body that was there before the first invocation
headsOf(f, k) ==
    IF k = 0 THEN {OldBody}
    ELSE {inv[k].aiContent \o "\n",
          "# " \o inv[k].word \o "\n\n" \o inv[k].aiContent \o "\n"}

\* C6 (state part): with one invocation at a time, a note is created by the
\* first invocation that writes to its path and by no later one, and its
\* body is the created (or found) body followed by the contents of all later
\* invocations that wrote to it, in invocation order.
C6_BodyHoldsAll ==
    \A f \in DOMAIN disk :
        LET creators == {t \in Tasks : created(t, f)}
            k == IF creators = {} THEN 0 ELSE least(creators)
        IN  /\ Cardinality(creators) <= 1
            /\ \A u \in Tasks : u < k => ~updated(u, f)
            /\ \E h \in headsOf(f, k) :
                  disk[f] = h \o sectionsOf(f, k, Cardinality(Tasks))

\* C6 (step part): no step deletes a note or changes the part of its body
\* that is already there; an invocation that ends without an error creates
\* the note if nothing is at its path and appends to it if the vault has it.
C6_ExtendsStep ==
    /\ \A f \in DOMAIN disk : f \in DOMAIN disk' /\ IsPrefix(disk[f], disk'[f])
    /\ index \subseteq index'
    /\ \A t \in Tasks :
        completes(t) =>
            LET f == inv'[t].fileName
            IN  /\ f \notin DOMAIN disk =>
                     /\ f \in DOMAIN disk'
                     /\ notices'[t] = <<"Created vocabulary file: " \o f>>
                /\ (f \in DOMAIN disk /\ f \in index) =>
                     /\ notices'[t] = <<"Updated vocabulary file: " \o f>>
                     /\ Len(disk'[f]) > Len(disk[f])

\* C6: note lifecycle without clobbering, for invocations run one at a time.
C6_NoteLifecycle == []C6_BodyHoldsAll /\ [][C6_ExtendsStep]_vars

C6_Witness ==
    /\ Cardinality(Tasks) >= 2
    /\ created(1, "vocab.luck.md")
    /\ updated(2, "vocab.luck.md")
    /\ inv[1].aiContent = "A fortunate discovery."
    /\ inv[2].aiContent = "**Definition:** happy accident."
    /\ disk["vocab.luck.md"] =
         "# luck\n\nA fortunate discovery.\n\n---\n\n**Definition:** happy accident.\n"

StorageCalls == {"exists", "create", "read", "modify"}

\* C7: when an awaited adapter or vault call fails, the handler catches the
\* error, logs it and shows one notice with the error's message; the
\* invocation is over and the link stays in the editor.
C7_StorageFailureHandled ==
    \A t \in Tasks :
        inv[t].from \in StorageCalls =>
            /\ inv[t].pc = "done"
            /\ inv[t].caught.type = "Error"
            /\ notices[t] = <<"Error: " \o inv[t].caught.message>>
            /\ console[t] # <<>>
            /\ console[t][Len(console[t])] = "Vocab generation error:"
            /\ editor[t] = defaultLink(inv[t].word)

C7_Witness ==
    \E t \in Tasks :
        /\ inv[t].from = "create"
        /\ notices[t] = <<"Error: File already exists.">>
        /\ editor[t] = "[[vocab.serendipity|serendipity]]"

\* a word that the replacement and the wikilink expression leave alone: no
\* "]" or "|", and no "$" followed by "$", "&" or "'"
plainWord(w) ==
    /\ ~includes(w, "]")
    /\ ~includes(w, "|")
    /\ ~includes(w, "$$")
    /\ ~includes(w, "$&")
    /\ ~includes(w, "$'")

resolvedDefault == pure.fn = "resolve" /\ pure.done /\ pure.pattern = "[[vocab.{}|{}]]"

\* C8 as stated: for every non-empty word the display link of the default
\* pattern holds the word twice and the storage identifier is
\* "vocab.<word>.md".
C8_Original ==
    resolvedDefault =>
        /\ occurrences(pure.displayLink, pure.word) >= 2
        /\ pure.storageIdentifier = "vocab." \o pure.word \o ".md"

\* C8 (amended): that holds for every non-empty word with no "]" or "|"
\* and no "$" replacement pattern in it; the link is then
\* "[[vocab.<word>|<word>]]".
C8_DefaultPatternResolves ==
    (resolvedDefault /\ plainWord(pure.word)) =>
        /\ pure.displayLink = "[[vocab." \o pure.word \o "|" \o pure.word \o "]]"
        /\ occurrences(pure.displayLink, pure.word) >= 2
        /\ pure.storageIdentifier = "vocab." \o pure.word \o ".md"

C8_Witness ==
    /\ resolvedDefault
    /\ pure.word = "a[$"
    /\ pure.storageIdentifier = "vocab.a[$.md"

reconciled == pure.fn = "header" /\ pure.done

\* C9 as stated: content whose first character after trimming is "#" or "*"
\* gets no synthetic header: the body of the new note is the content and a
\* newline, with no "# <word>" put before it.
C9_Original ==
    (reconciled /\ (startsWith(trim(pure.content), "#") \/ startsWith(trim(pure.content), "*"))) =>
        /\ pure.hasHeader
        /\ pure.body = pure.content \o "\n"

\* C9 (amended): content that after trimming starts with "#" or with "**"
\* gets no synthetic header: the body is the content and a newline.
C9_MarkedContentKept ==
    (reconciled /\ (startsWith(trim(pure.content), "#") \/ startsWith(trim(pure.content), "**"))) =>
        /\ pure.hasHeader
        /\ pure.body = pure.content \o "\n"

C9_Witness ==
    /\ reconciled
    /\ pure.content = " **"
    /\ pure.word = "ok"
    /\ pure.body = " **\n"

\* the calls of one invocation, in the order the handler makes them
callOrders ==
    LET start  == <<"getSelection", "replaceSelection", "adapter.exists">>
        gen    == IF settings.apiKey = "" THEN <<>> ELSE <<"generateContent">>
    IN  {start \o gen \o <<"vault.create">>,
         start \o gen \o <<"getFileByPath", "vault.read", "vault.modify">>}

\* C10 as stated: the existence check comes after the provider call, and
\* nothing comes between the check, the read and the write: a note is
\* created only while nothing is at its path, and modified only while its
\* body is the body that was read.
C10_Original ==
    \A t \in Tasks :
        /\ ("generateContent" \in Range(log[t]) /\ "adapter.exists" \in Range(log[t])) =>
              position(log[t], "generateContent") < position(log[t], "adapter.exists")
        /\ inv[t].pc = "create" => inv[t].fileName \notin DOMAIN disk
        /\ inv[t].pc = "modify" => inv[t].content = disk[inv[t].fileName]

\* C10 (amended): the calls of an invocation come in the fixed order
\* selection, replacement, existence check, provider call, then create or
\* read and modify; the create-versus-append decision is the answer of the
\* existence check made before generation, whatever is at the path when the
\* content is written.
C10_StepOrder ==
    \A t \in Tasks :
        /\ inv[t].word # "" => \E o \in callOrders : IsPrefixSeq(log[t], o)
        /\ inv[t].pc = "create" => ~inv[t].fileExists
        /\ inv[t].pc \in {"read", "modify"} => inv[t].fileExists
        /\ "vault.create" \in Range(log[t]) => ~inv[t].fileExists
        /\ "vault.read" \in Range(log[t]) => inv[t].fileExists

\* the decision of t is stale: it awaits vault.create for a path that
\* another invocation has filled since t's existence check
C10_Witness ==
    \E t \in Tasks :
        /\ inv[t].pc = "create"
        /\ ~inv[t].fileExists
        /\ "generateContent" \in Range(log[t])
        /\ inv[t].fileName \in DOMAIN disk

\* invocation t is between its existence check and the end of its write
midSequence(t) == inv[t].pc \in {"generate", "create", "read", "modify"}

\* the sections appended to a body: its separators (no generated content
\* of the model holds one)
sectionsIn(body) == occurrences(body, "\n---\n\n")

updatersOf(f) == {t \in Tasks : updated(t, f)}

\* C11 (no exclusion): while one invocation is between its existence check
\* and the end of its write, the read and the modify of another invocation
\* on the same path can still take place; and a note holds fewer sections
\* than invocations have reported appending to it only if two of them read
\* the same body, that is, one read before the other wrote.
C11_RaceNotExcluded ==
    /\ \A t, u \in Tasks :
          (t # u /\ midSequence(t) /\ inv[u].fileName = inv[t].fileName) =>
              /\ inv[u].pc = "read" => ENABLED readResolves(u)
              /\ inv[u].pc = "modify" => ENABLED modifyResolves(u)
    /\ \A f \in DOMAIN disk :
          sectionsIn(disk[f]) < Cardinality(updatersOf(f)) =>
              \E t, u \in updatersOf(f) : t # u /\ inv[t].content = inv[u].content

\* the lost update: both invocations have finished and reported "Updated"
\* for the same note, each read "Old notes." before the other wrote, and
\* the note holds the content of the second writer only
C11_Witness ==
    \E t, u \in Tasks :
        /\ t # u
        /\ updated(t, OldFile) /\ updated(u, OldFile)
        /\ inv[t].from = "" /\ inv[u].from = ""
        /\ inv[t].content = "Old notes." /\ inv[u].content = "Old notes."
        /\ inv[t].aiContent = "**Definition:** happy accident."
        /\ inv[u].aiContent = "A fortunate discovery."
        /\ disk[OldFile] = "Old notes.\n---\n\nA fortunate discovery.\n"
        /\ ~includes(disk[OldFile], inv[t].aiContent)

\* C12 as stated: an invocation with a non-empty selection that ends with
\* no error raised has shown the "Created" or the "Updated" notice for its
\* path, after the vault.create or vault.modify that wrote its content.
C12_NoSilentCompletion ==
    \A t \in Tasks :
        (inv[t].pc = "done" /\ inv[t].word # "" /\ inv[t].from = "") =>
            \/ /\ notices[t] = <<"Created vocabulary file: " \o inv[t].fileName>>
               /\ "vault.create" \in Range(log[t])
            \/ /\ notices[t] = <<"Updated vocabulary file: " \o inv[t].fileName>>
               /\ "vault.modify" \in Range(log[t])

====
